---- MODULE Spec2Model ----
(***************************************************************************)
(* CashLog warehouse location problem (BasicAnalysis.ipynb).               *)
(*                                                                         *)
(* Two programs are modelled.                                              *)
(*  - The notebook's own cells, which build and solve the MIP step by step *)
(*    (load tables, declare x and y, objective, constraints, solve, print  *)
(*    the costs).  Specification Spec.                                     *)
(*  - The cells that drive the imported class CashLogWLP: single solves    *)
(*    and the sensitivity sweep.  Specification SpecWLP.  The class's file *)
(*    basicModel.py is downloaded by the notebook's first cell and is not  *)
(*    part of the source tree; its solve method is modelled from the       *)
(*    design document.                                                     *)
(*                                                                         *)
(* The MIP solver (PuLP/CBC) is an external collaborator: prob.solve() is  *)
(* modelled as a nondeterministic choice among the optimal solutions of    *)
(* the assembled model, or status infeasible when there is none.           *)
(***************************************************************************)
EXTENDS Integers, FiniteSets, Sequences, TLC

VARIABLES
    warehouses,     \* warehouse table: warehouseID -> fixedCosts
    regions,        \* region table: set of regionIDs
    shifts,         \* shift table: <<warehouseID, regionID>> -> transportationCosts
    pc,             \* the notebook cell reached (Spec) / the driver's position (SpecWLP)
    x,              \* LpVariable dict x: key -> varValue (None before a solve)
    y,              \* LpVariable dict y: key -> varValue
    prob,           \* the LpProblem: objective coefficients and constraints
    status,         \* the value returned by prob.solve()
    fixedCosts,     \* printed by the extraction cell
    variableCosts,
    objectiveValue, \* prob.objective.value()
    wlp,            \* the CashLogWLP object's result fields
    cfg,            \* the arguments of the last wlp.solve call
    raised,         \* the error that ended a CashLogWLP cell ("" for none)
    cFixed,         \* the sweep's dictionaries, bound -> value
    cVariable,
    cTotal,
    warehouse_results,
    region_results,
    n,              \* the sweep's loop variable
    min_costs_n     \* results_df.total.idxmin()

tables == <<warehouses, regions, shifts>>
cells  == <<x, y, prob, status, fixedCosts, variableCosts, objectiveValue>>
sweep  == <<cFixed, cVariable, cTotal, warehouse_results, region_results, n,
           min_costs_n>>
driver == <<wlp, cfg, raised>>
vars   == <<tables, pc, cells, driver, sweep>>

----------------------------------------------------------------------------
(* Bounds of the model. *)

\* Largest fixed or transportation cost of the exhaustively enumerated tables.
MaxCost == 1

\* Ids of the exhaustively enumerated warehouse and region tables.
WarehouseIds == {1, 2}
RegionIds == {1, 2}

\* An id that is in neither table (used by shifts that reference nothing).
UnknownId == 9

----------------------------------------------------------------------------
(* The input tables, lines 111-118. *)

W == DOMAIN warehouses
R == regions
S == DOMAIN shifts

Prefixes(Ids) == {{i \in Ids : i <= k} : k \in {0} \cup Ids}

\* The keys of a shift table: any set of pairs of W x R; or every pair of
\* W x R and one more row whose warehouseID or regionID is in neither table.
Dangling(Ws, Rs) ==
    {<<UnknownId, r>> : r \in Rs} \cup {<<w, UnknownId>> : w \in Ws}

ShiftKeys(Ws, Rs) ==
    SUBSET (Ws \X Rs) \cup {(Ws \X Rs) \cup {d} : d \in Dangling(Ws, Rs)}

Tables ==
    UNION {UNION {UNION {
        { [warehouses |-> f, regions |-> Rs, shifts |-> c] :
            f \in [Ws -> 0..MaxCost], c \in [K -> 0..MaxCost] }
        : K \in ShiftKeys(Ws, Rs)} : Rs \in Prefixes(RegionIds)}
        : Ws \in Prefixes(WarehouseIds)}

\* Hub networks: warehouse 1 is eligible for every region at one positive
\* cost per region; warehouse j+1 is eligible for region j alone, at no cost.
\* Every warehouse has a positive fixed cost: at most MaxHubFixed for the hub,
\* at most MaxSatFixed for the others.
MaxHubFixed == 4
MaxSatFixed == 2
HubRegionIds == {1, 2, 3}

HubTables ==
    { [warehouses |-> [i \in {1} \cup {j + 1 : j \in Rs} |->
                          IF i = 1 THEN h ELSE s],
       regions |-> Rs,
       shifts |-> [k \in {<<1, j>> : j \in Rs} \cup {<<j + 1, j>> : j \in Rs} |->
                      IF k[1] = 1 THEN a ELSE 0]] :
        Rs \in {HubRegionIds}, h \in 1..MaxHubFixed,
        a \in 1..MaxCost, s \in 1..MaxSatFixed }

\* The tables given to the CashLogWLP cells: the hub networks and the
\* enumerated tables, those with a row of unknown id at zero costs only.
WlpTables ==
    HubTables \cup
    {t \in Tables :
        (\E k \in DOMAIN t.shifts :
            k[1] \notin DOMAIN t.warehouses \/ k[2] \notin t.regions)
        => /\ \A k \in DOMAIN t.shifts : t.shifts[k] = 0
           /\ \A i \in DOMAIN t.warehouses : t.warehouses[i] = 0}

----------------------------------------------------------------------------
(* Arithmetic helpers. *)

RECURSIVE SumF(_, _)
SumF(f, D) ==
    IF D = {} THEN 0
    ELSE LET e == CHOOSE e \in D : TRUE IN f[e] + SumF(f, D \ {e})

\* Python's None, and a field that holds the number v.
None == << >>
Val(v) == v[1]

----------------------------------------------------------------------------
(* The LpProblem and the solver. *)

\* A linear constraint  sum(x[k], k in xs) + sum(y[k], k in ypos)
\*                      - sum(y[k], k in yneg)  <sense>  rhs.
Constraint(xs, ypos, yneg, sense, rhs) ==
    [xs |-> xs, ypos |-> ypos, yneg |-> yneg, sense |-> sense, rhs |-> rhs]

\* The variables are binary: a sum of them is the number that are 1.
Ones(f, D) == Cardinality({k \in D : f[k] = 1})

Lhs(c, sol) ==
    Ones(sol.x, c.xs) + Ones(sol.y, c.ypos) - Ones(sol.y, c.yneg)

Holds(c, sol) ==
    IF c.sense = "<=" THEN Lhs(c, sol) <= c.rhs ELSE Lhs(c, sol) = c.rhs

\* Line 84: prob = LpProblem('CashLog_BasicAnalysis', LpMinimize).
EmptyProblem ==
    [cx |-> << >>, cy |-> << >>, constraints |-> {}]

\* The value of the objective, lines 166-169:
\*   sum x[i,j] * transportationCosts + sum y[i] * fixedCosts.
ObjectiveValue(p, sol) ==
    SumF([k \in DOMAIN p.cx |-> sol.x[k] * p.cx[k]], DOMAIN p.cx)
    + SumF([k \in DOMAIN p.cy |-> sol.y[k] * p.cy[k]], DOMAIN p.cy)

\* Every 0/1 assignment of the problem's binary variables (cat=LpBinary).
Assignments(p) ==
    [x : [DOMAIN p.cx -> {0, 1}], y : [DOMAIN p.cy -> {0, 1}]]

\* The assignments that satisfy every constraint.  The constraints over y
\* alone are applied first, then the others: the same set as filtering
\* Assignments(p), found sooner.
Feasible(p) ==
    LET yonly == {c \in p.constraints : c.xs = {}}
        rest == p.constraints \ yonly
        ys == {yy \in [DOMAIN p.cy -> {0, 1}] :
                 \A c \in yonly : Holds(c, [x |-> << >>, y |-> yy])}
    IN UNION { { [x |-> xx, y |-> yy] :
                   xx \in {xx \in [DOMAIN p.cx -> {0, 1}] :
                             \A c \in rest : Holds(c, [x |-> xx, y |-> yy])} }
               : yy \in ys }

\* Line 220, prob.solve(): the solutions the solver may return with status
\* Optimal; empty when the problem is infeasible.
Optimal(p) ==
    LET F == Feasible(p)
        V == {ObjectiveValue(p, sol) : sol \in F}
    IN  IF F = {} THEN {}
        ELSE LET m == CHOOSE v \in V : \A u \in V : v <= u
             IN {sol \in F : ObjectiveValue(p, sol) = m}

\* The varValue fields after a solve that returned sol.
Solved(f) == [k \in DOMAIN f |-> <<f[k]>>]

\* After an infeasible solve the varValue fields hold whatever the solver
\* left: nothing, or some numbers.
Leftover(keys) == [keys -> {None, <<0>>, <<1>>}]

----------------------------------------------------------------------------
(* The notebook's own cells. *)

Before(p, q) == p[1] < q[1] \/ (p[1] = q[1] /\ p[2] < q[2])

\* Linkage with the right-hand side lost: x[i,j] <= 1.
LinkageUnlinked(i, j) == Constraint({<<i, j>>}, {}, {}, "<=", 1)

\* Lines 195-197: prob += x[i,j] <= y[i].
Linkage(i, j) == Constraint({<<i, j>>}, {}, {i}, "<=", 0)

\* Lines 199-200: prob += lpSum([x[i,j] for i in W]) == 1.
Coverage(j) == Constraint({<<i, j>> : i \in W}, {}, {}, "=", 1)

\* Lines 141-142: x = LpVariable.dicts(indexs=S), y = LpVariable.dicts(indexs=W).
DefineVariables ==
    /\ pc = "loaded"
    /\ x' = [k \in S |-> None]
    /\ y' = [i \in W |-> None]
    /\ pc' = "variables"
    /\ UNCHANGED <<tables, prob, status, fixedCosts, variableCosts,
                   objectiveValue, driver, sweep>>

\* Lines 166-169: the objective; one term per key of x and of y.
SetObjective ==
    /\ pc = "variables"
    /\ prob' = [prob EXCEPT !.cx = [k \in DOMAIN x |-> shifts[k]],
                            !.cy = [i \in DOMAIN y |-> warehouses[i]]]
    /\ pc' = "objective"
    /\ UNCHANGED <<tables, x, y, status, fixedCosts, variableCosts,
                   objectiveValue, driver, sweep>>

\* Lines 195-200.  The loops run over W x R and look every pair up in x,
\* whose keys are the rows of the shift table: the first pair that is not a
\* row raises KeyError, after the constraints of the pairs before it were added.
AddConstraints ==
    /\ pc = "objective"
    /\ LET missing == (W \X R) \ DOMAIN x
       IN IF missing = {}
          THEN /\ prob' = [prob EXCEPT !.constraints =
                              {Linkage(p[1], p[2]) : p \in W \X R}
                              \cup {Coverage(j) : j \in R}]
               /\ pc' = "constrained"
          ELSE LET first == CHOOSE p \in missing :
                                \A q \in missing : p = q \/ Before(p, q)
               IN /\ prob' = [prob EXCEPT !.constraints =
                                 {Linkage(p[1], p[2]) :
                                     p \in {q \in W \X R : Before(q, first)}}]
                  /\ pc' = "KeyError"
    /\ UNCHANGED <<tables, x, y, status, fixedCosts, variableCosts,
                   objectiveValue, driver, sweep>>

\* Line 220: status = prob.solve().
Solve ==
    /\ pc = "constrained"
    /\ LET opt == Optimal(prob)
       IN IF opt # {}
          THEN \E sol \in opt :
                  /\ status' = "Optimal"
                  /\ x' = Solved(sol.x)
                  /\ y' = Solved(sol.y)
          ELSE /\ status' = "Infeasible"
               /\ x' \in Leftover(DOMAIN x)
               /\ y' \in Leftover(DOMAIN y)
    /\ pc' = "solved"
    /\ UNCHANGED <<tables, prob, fixedCosts, variableCosts, objectiveValue,
                   driver, sweep>>

\* Lines 235-239: the cost sums over the varValues and the printed objective.
\* The status is not looked at; a varValue of None raises TypeError at the
\* line that multiplies it.
\* The fixed-cost sum without the varValue factor.
ExtractFixedAll == SumF(warehouses, W)

ExtractFixed == SumF([i \in W |-> Val(y[i]) * warehouses[i]], W)
ExtractVariable == SumF([k \in S |-> Val(x[k]) * shifts[k]], S)
ExtractObjective ==
    ObjectiveValue(prob, [x |-> [k \in DOMAIN x |-> Val(x[k])],
                          y |-> [i \in DOMAIN y |-> Val(y[i])]])

Extract ==
    /\ pc = "solved"
    /\ IF \E i \in W : y[i] = None
       THEN /\ pc' = "TypeError"
            /\ UNCHANGED <<fixedCosts, variableCosts, objectiveValue>>
       ELSE /\ fixedCosts' = <<ExtractFixed>>
            /\ IF \E k \in S : x[k] = None
               THEN /\ pc' = "TypeError"
                    /\ UNCHANGED <<variableCosts, objectiveValue>>
               ELSE /\ variableCosts' = <<ExtractVariable>>
                    /\ objectiveValue' = <<ExtractObjective>>
                    /\ pc' = "printed"
    /\ UNCHANGED <<tables, x, y, prob, status, driver, sweep>>

----------------------------------------------------------------------------
(* CashLogWLP.solve(n_warehouses, force_open), from the design document.  *)

IsRow(k) == k[1] \in W /\ k[2] \in R

\* Linkage for every pair that has an assignment variable; coverage of a
\* region over the warehouses eligible for it.
WlpLinkage(k) == Constraint({k}, {}, {k[1]}, "<=", 0)
WlpCoverage(j) == Constraint({k \in S : k[2] = j}, {}, {}, "=", 1)

\* The forced-open constraint as y[w] <= 1, which pins nothing.
ForcedOpenLoose(w) == Constraint({}, {w}, {}, "<=", 1)

\* y[w] = 1 for each id of force_open.
ForcedOpen(w) == Constraint({}, {w}, {}, "=", 1)

\* The count bound as an upper limit, sum(y) <= n_warehouses.
CountBoundAtMost(nw) ==
    IF nw >= 0 THEN {Constraint({}, W, {}, "<=", nw)} ELSE {}

\* sum(y) = n_warehouses when n_warehouses >= 0; nothing for -1.
CountBound(nw) ==
    IF nw >= 0 THEN {Constraint({}, W, {}, "=", nw)} ELSE {}

WlpProblem(nw, F) ==
    [cx |-> shifts, cy |-> warehouses,
     constraints |-> {WlpLinkage(k) : k \in S}
                     \cup {WlpCoverage(j) : j \in R}
                     \cup {ForcedOpen(w) : w \in F}
                     \cup CountBound(nw)]

Open(sol) == {w \in DOMAIN sol.y : sol.y[w] = 1}
Assigned(sol) == {k \in DOMAIN sol.x : sol.x[k] = 1}

\* The snapshot a solve leaves in the object.
SolveResult(sol) ==
    LET fixed == SumF(warehouses, Open(sol))
        variable == SumF(shifts, Assigned(sol))
    IN [status |-> "Optimal",
        fixedCosts |-> <<fixed>>,
        variableCosts |-> <<variable>>,
        totalCosts |-> <<fixed + variable>>,
        warehouse_results |-> sol.y,
        region_results |->
            [j \in R |-> CHOOSE i \in W : <<i, j>> \in Assigned(sol)]]

\* cfg before any call of solve.
NoCall == [n_warehouses |-> -1, force_open |-> {}]

NewWlp ==
    [status |-> "New", fixedCosts |-> None, variableCosts |-> None,
     totalCosts |-> None, warehouse_results |-> << >>,
     region_results |-> << >>]

\* The outcomes of wlp.solve: the error it raises ("" for none) and the
\* object's fields afterwards.
WlpSolve(obj, nw, F) ==
    IF \E k \in S : ~IsRow(k)
    THEN {[error |-> "DataIntegrityError", wlp |-> obj]}
    ELSE LET opt == Optimal(WlpProblem(nw, F))
         IN IF opt = {}
            THEN {[error |-> "NoFeasibleSolution", wlp |-> obj]}
            ELSE {[error |-> "", wlp |-> SolveResult(sol)] : sol \in opt}

----------------------------------------------------------------------------
(* The cells that drive CashLogWLP. *)

\* The first bound of the sweep, range(12, len(wlp.W)+1) at line 410.  The
\* notebook's 12 belongs to its data set of more than forty warehouses; the
\* model's tables have at most four, and the sweep starts at 1.
SweepStart == 1

CountArgs == -1 .. (Cardinality(W) + 1)

\* Lines 283-287 and 353-357: wlp = CashLogWLP(); wlp.solve(n_warehouses,
\* force_open); print the costs.  The cells pass -1 and [] or [8, 28]; here
\* any count and any set of warehouse ids.
SolveCell ==
    /\ pc = "ready"
    /\ \E nw \in CountArgs, F \in SUBSET W :
          \E out \in WlpSolve(NewWlp, nw, F) :
             /\ cfg' = [n_warehouses |-> nw, force_open |-> F]
             /\ wlp' = out.wlp
             /\ raised' = out.error
             /\ pc' = IF out.error = "" THEN "cell_done" ELSE "cell_failed"
    /\ UNCHANGED <<tables, cells, sweep>>

\* Lines 402-408: the five dictionaries and the object the loop reuses.
SweepBegin ==
    /\ pc = "ready"
    /\ cFixed' = << >>
    /\ cVariable' = << >>
    /\ cTotal' = << >>
    /\ warehouse_results' = << >>
    /\ region_results' = << >>
    /\ wlp' = NewWlp
    /\ n' = SweepStart
    /\ pc' = "sweeping"
    /\ UNCHANGED <<tables, cells, cfg, raised, min_costs_n>>

\* The loop with cTotal[n] read from wlp.fixedCosts.
RecordedTotalIsFixed(obj) ==
    [fixed |-> obj.fixedCosts, variable |-> obj.variableCosts,
     total |-> obj.fixedCosts]

\* Lines 412-414: what the loop reads from the object after a solve.
Recorded(obj) ==
    [fixed |-> obj.fixedCosts, variable |-> obj.variableCosts,
     total |-> obj.totalCosts]

\* The iteration with every entry of the cost dictionaries bound to the one
\* record the object keeps and overwrites: all bounds show the last solve.
SweepStepShared ==
    /\ pc = "sweeping"
    /\ n <= Cardinality(W)
    /\ \E out \in WlpSolve(wlp, n, {}) :
          /\ cfg' = [n_warehouses |-> n, force_open |-> {}]
          /\ wlp' = out.wlp
          /\ raised' = out.error
          /\ IF out.error = ""
             THEN /\ cFixed' = [m \in DOMAIN cFixed \cup {n} |->
                                 Recorded(out.wlp).fixed]
                  /\ cVariable' = [m \in DOMAIN cVariable \cup {n} |->
                                    Recorded(out.wlp).variable]
                  /\ cTotal' = [m \in DOMAIN cTotal \cup {n} |->
                                 Recorded(out.wlp).total]
                  /\ warehouse_results' =
                        (n :> out.wlp.warehouse_results) @@ warehouse_results
                  /\ region_results' =
                        (n :> out.wlp.region_results) @@ region_results
                  /\ n' = n + 1
                  /\ pc' = "sweeping"
             ELSE /\ pc' = "sweep_failed"
                  /\ UNCHANGED <<cFixed, cVariable, cTotal, warehouse_results,
                                 region_results, n>>
    /\ UNCHANGED <<tables, cells, min_costs_n>>

\* Lines 410-416, one iteration.  An error raised by solve ends the loop and
\* the cell: nothing catches it.
SweepStep ==
    /\ pc = "sweeping"
    /\ n <= Cardinality(W)
    /\ \E out \in WlpSolve(wlp, n, {}) :
          /\ cfg' = [n_warehouses |-> n, force_open |-> {}]
          /\ wlp' = out.wlp
          /\ raised' = out.error
          /\ IF out.error = ""
             THEN /\ cFixed' = (n :> Recorded(out.wlp).fixed) @@ cFixed
                  /\ cVariable' = (n :> Recorded(out.wlp).variable) @@ cVariable
                  /\ cTotal' = (n :> Recorded(out.wlp).total) @@ cTotal
                  /\ warehouse_results' =
                        (n :> out.wlp.warehouse_results) @@ warehouse_results
                  /\ region_results' =
                        (n :> out.wlp.region_results) @@ region_results
                  /\ n' = n + 1
                  /\ pc' = "sweeping"
             ELSE /\ pc' = "sweep_failed"
                  /\ UNCHANGED <<cFixed, cVariable, cTotal, warehouse_results,
                                 region_results, n>>
    /\ UNCHANGED <<tables, cells, min_costs_n>>

\* Lines 418-419: results_df and min_costs_n = results_df.total.idxmin(), the
\* first bound of least total cost; idxmin of an empty column raises.
SweepEnd ==
    /\ pc = "sweeping"
    /\ n > Cardinality(W)
    /\ IF DOMAIN cTotal = {}
       THEN /\ pc' = "sweep_failed"
            /\ raised' = "ValueError"
            /\ UNCHANGED min_costs_n
       ELSE /\ min_costs_n' =
                  <<CHOOSE m \in DOMAIN cTotal :
                      /\ \A k \in DOMAIN cTotal : Val(cTotal[m]) <= Val(cTotal[k])
                      /\ \A k \in DOMAIN cTotal :
                            Val(cTotal[k]) = Val(cTotal[m]) => m <= k>>
            /\ pc' = "swept"
            /\ UNCHANGED raised
    /\ UNCHANGED <<tables, cells, wlp, cfg, cFixed, cVariable, cTotal,
                   warehouse_results, region_results, n>>

----------------------------------------------------------------------------
\* The state once the tables are loaded: nothing built, nothing solved.
Loaded(T, at) ==
    /\ \E t \in T :
          /\ warehouses = t.warehouses
          /\ regions = t.regions
          /\ shifts = t.shifts
    /\ pc = at
    /\ x = << >>
    /\ y = << >>
    /\ prob = EmptyProblem
    /\ status = "Not Solved"
    /\ fixedCosts = None
    /\ variableCosts = None
    /\ objectiveValue = None
    /\ wlp = NewWlp
    /\ cfg = NoCall
    /\ raised = ""
    /\ cFixed = << >>
    /\ cVariable = << >>
    /\ cTotal = << >>
    /\ warehouse_results = << >>
    /\ region_results = << >>
    /\ n = SweepStart
    /\ min_costs_n = None

Init == Loaded(Tables, "loaded")

Next ==
    \/ DefineVariables
    \/ SetObjective
    \/ AddConstraints
    \/ Solve
    \/ Extract

Spec == Init /\ [][Next]_vars

InitWLP == Loaded(WlpTables, "ready")

NextWLP ==
    \/ SolveCell
    \/ SweepBegin
    \/ SweepStep
    \/ SweepEnd

SpecWLP == InitWLP /\ [][NextWLP]_vars

----------------------------------------------------------------------------
(* Properties of the notebook's own cells (Spec). *)

XTrue(k) == k \in DOMAIN x /\ x[k] = <<1>>
YTrue(i) == i \in DOMAIN y /\ y[i] = <<1>>

\* C1: after a solve that returned Optimal, every region has exactly one
\* warehouse whose assignment variable is true, that pair is a row of the
\* shift table and the warehouse is open; and no row of the tables' ids has
\* its assignment variable true while its warehouse is closed.
C1_AssignedToOneOpenWarehouse ==
    status = "Optimal" =>
        /\ \A j \in R : \E i \in W :
              /\ XTrue(<<i, j>>)
              /\ <<i, j>> \in S
              /\ YTrue(i)
              /\ \A i2 \in W : XTrue(<<i2, j>>) => i2 = i
        /\ \A k \in S : (IsRow(k) /\ XTrue(k)) => YTrue(k[1])

\* Two warehouses, two regions, one warehouse closed and both regions
\* served by the other.
C1_Witness ==
    /\ status = "Optimal"
    /\ Cardinality(W) = 2
    /\ Cardinality(R) = 2
    /\ \E i \in W : y[i] = <<0>> /\ warehouses[i] > 0
    /\ \E i \in W : \A j \in R : XTrue(<<i, j>>)

\* C5: a region without a row in the shift table does not make the
\* constraint cell fail, and the solve then ends Infeasible, never Optimal.
RegionWithoutRow == \E j \in R : \A k \in S : k[2] # j

C5_RegionWithoutRowIsInfeasible ==
    RegionWithoutRow =>
        /\ pc # "KeyError"
        /\ pc \in {"solved", "printed", "TypeError"} => status = "Infeasible"

\* C7: when the status is not Optimal the extraction cell prints nothing:
\* no fixed costs, no variable costs, no total.
C7_NoCostsUnlessOptimal ==
    (pc \in {"printed", "TypeError"} /\ status # "Optimal") =>
        /\ pc # "printed"
        /\ fixedCosts = None
        /\ variableCosts = None
        /\ objectiveValue = None

\* C8: after an Optimal solve the printed fixed costs are the fixed costs of
\* the open warehouses, the printed variable costs the transportation costs
\* of the assigned shifts, and the printed total is their sum and the least
\* objective value of the model.
C8_CostsAddUp ==
    (pc = "printed" /\ status = "Optimal") =>
        /\ fixedCosts = <<SumF(warehouses, {i \in W : YTrue(i)})>>
        /\ variableCosts = <<SumF(shifts, {k \in S : XTrue(k)})>>
        /\ Val(objectiveValue) = Val(fixedCosts) + Val(variableCosts)
        /\ \A sol \in Feasible(prob) :
              Val(objectiveValue) <= ObjectiveValue(prob, sol)

\* A closed warehouse that has a fixed cost, and both subtotals positive.
C8_Witness ==
    /\ pc = "printed"
    /\ status = "Optimal"
    /\ \E i \in W : y[i] = <<0>> /\ warehouses[i] > 0
    /\ Val(fixedCosts) > 0
    /\ Val(variableCosts) > 0

\* C9: a shift table with a row whose warehouseID or regionID is in neither
\* table never gets to the solver: no solved model has a variable for it.
C9_UnknownIdNeverSolved ==
    pc \in {"solved", "printed", "TypeError"} =>
        \A k \in DOMAIN prob.cx : IsRow(k)

----------------------------------------------------------------------------
(* Properties of the cells that drive CashLogWLP (SpecWLP). *)

OpenIn(results) == {i \in DOMAIN results : results[i] = 1}

\* The numbers of warehouses an unconstrained optimum may open.
UnconstrainedOpenCounts ==
    {Cardinality(Open(sol)) : sol \in Optimal(WlpProblem(-1, {}))}

\* C2: after a solve that ended Optimal, a count argument k >= 0 leaves
\* exactly k warehouses open; with -1 the total is no more than the cost of
\* any solution with any number of open warehouses.
C2_CountIsExact ==
    (wlp.status = "Optimal" /\ raised = "") =>
        /\ cfg.n_warehouses >= 0 =>
              Cardinality(OpenIn(wlp.warehouse_results)) = cfg.n_warehouses
        /\ cfg.n_warehouses = -1 =>
              \A k \in 0..Cardinality(W) :
                 \A sol \in Feasible(WlpProblem(k, cfg.force_open)) :
                    Val(wlp.totalCosts)
                       <= ObjectiveValue(WlpProblem(k, cfg.force_open), sol)

\* A count of two, which no unconstrained optimum opens, on three or more
\* warehouses.
C2_Witness ==
    /\ pc = "cell_done"
    /\ cfg.n_warehouses = 2
    /\ Cardinality(W) >= 3
    /\ 2 \notin UnconstrainedOpenCounts
    /\ Cardinality(OpenIn(wlp.warehouse_results)) = 2

\* C3: after a solve that ended Optimal every warehouse of force_open is
\* open, whatever the count argument.
C3_ForcedAreOpen ==
    (wlp.status = "Optimal" /\ raised = "") =>
        \A i \in cfg.force_open : wlp.warehouse_results[i] = 1

\* Two forced warehouses under a count bound, where no optimum of the same
\* count opens both unforced.
C3_Witness ==
    /\ pc = "cell_done"
    /\ Cardinality(cfg.force_open) = 2
    /\ cfg.n_warehouses >= 0
    /\ \A sol \in Optimal(WlpProblem(cfg.n_warehouses, {})) :
          ~(cfg.force_open \subseteq Open(sol))
    /\ cfg.force_open \subseteq OpenIn(wlp.warehouse_results)

\* C4: of two recorded bounds n1 < n2, neither above the number of
\* warehouses the unconstrained optimum opens (the least such number when
\* several optima open different numbers), the larger costs no more.
C4_CostNonIncreasing ==
    Cardinality(DOMAIN cTotal) >= 2 =>
        LET counts == UnconstrainedOpenCounts
        IN \A n2 \in {m \in DOMAIN cTotal : \A k \in counts : m <= k} :
              \A n1 \in DOMAIN cTotal :
                 n1 < n2 => Val(cTotal[n2]) <= Val(cTotal[n1])

\* C4, amended: of two recorded bounds n1 < n2 where n2 is the number of
\* warehouses an unconstrained optimum opens, the larger costs no more.
C4_OptimumCountCostsLeast ==
    Cardinality(DOMAIN cTotal) >= 2 =>
        \A n2 \in UnconstrainedOpenCounts \cap DOMAIN cTotal :
           \A n1 \in DOMAIN cTotal :
              n1 < n2 => Val(cTotal[n2]) <= Val(cTotal[n1])

\* A finished sweep of three or more bounds where the optimum's count costs
\* strictly less than a smaller bound.
C4_Witness ==
    /\ pc = "swept"
    /\ Cardinality(DOMAIN cTotal) >= 3
    /\ \E n2 \in UnconstrainedOpenCounts \cap DOMAIN cTotal :
          \E n1 \in DOMAIN cTotal :
             n1 < n2 /\ Val(cTotal[n2]) < Val(cTotal[n1])

\* C6: once the sweep is over, whether it finished or a solve found no
\* feasible solution, every bound of the range has its recorded outcome.
C6_EveryBoundRecorded ==
    (pc \in {"swept", "sweep_failed"} /\ raised \in {"", "NoFeasibleSolution"}) =>
        DOMAIN cTotal = SweepStart .. Cardinality(W)

\* The cost triples a solve of a new object with count m may leave.
FreshTriples(m) ==
    {<<o.wlp.fixedCosts, o.wlp.variableCosts, o.wlp.totalCosts>> :
        o \in {o \in WlpSolve(NewWlp, m, {}) : o.error = ""}}

====
